---- MODULE Spec2Model ----
(***************************************************************************)
(* Model of the request/authentication core of the ProtonMail API client   *)
(* (package protonmail, protonmail.go): Credential State, the Request      *)
(* Builder (newRequest, newJSONRequest, setRequestAuthorization), the      *)
(* Transport Executor (do) and the Response Decoder (doJSON,               *)
(* doJSONWithCookies, resp.Err).                                           *)
(*                                                                         *)
(* The transport (http.Client.Do) and the re-authentication hook           *)
(* (Client.ReAuth) are external: every outcome they can produce is a       *)
(* nondeterministic choice.  The recursion of do is a tail call, so the    *)
(* model keeps one frame per caller: its request, the response of the      *)
(* innermost send and the position in the code.                            *)
(***************************************************************************)
EXTENDS Integers, Sequences, FiniteSets, TLC

(***************************************************************************)
(* Bounds of the model.  Counters and logs saturate at their bound (they   *)
(* stop growing, the program goes on), so that a retry loop of the code    *)
(* stays a loop of the model.                                              *)
(***************************************************************************)
NumCallers == 2
MaxSends == 3
MaxHookCalls == 3
MaxCookies == 2

(***************************************************************************)
(* Program constants.                                                      *)
(***************************************************************************)
Version == 3
StatusUnauthorized == 401

headerAPIVersion == "X-Pm-Apiversion"
headerAppVersion == "X-Pm-Appversion"
AppVersion == "Other"

Callers == 1..NumCallers

(***************************************************************************)
(* Value universes the inputs are drawn from.                              *)
(***************************************************************************)
Uids == {"", "u1"}
AccessTokens == {"", "t1", "t2"}
AuthTokens == {"", "a/2"}
KeyRings == {"k0"}

\* error values; Go's nil error is NoErr
MkErr(kind, code, msg) == [kind |-> kind, Code |-> code, Message |-> msg]
NoErr == MkErr("nil", 0, "")
ErrTransport == MkErr("transport", 0, "connection refused")
ErrReAuth == MkErr("reauth", 0, "cannot re-authenticate")
ErrGetBody == MkErr("getbody", 0, "cannot replay body")
ErrDecode == MkErr("json", 0, "invalid character")
ErrEncode == MkErr("json", 0, "unsupported type")
ErrNewRequest == MkErr("url", 0, "invalid URL")
ErrReAuthDenied == MkErr("reauth", 0, "refresh token rejected")
HookErrs == {ErrReAuth, ErrReAuthDenied}

(***************************************************************************)
(* JSON response bodies.  A well-formed body is a JSON object, modelled as *)
(* a function from the keys it holds to their values; a body that is not   *)
(* JSON is not wellFormed.                                                 *)
(***************************************************************************)
JSONObjects ==
    { <<>>,
      [Code |-> 1000],
      [Code |-> 2000],
      [Code |-> 1000, Error |-> ""],
      [Code |-> 401, Error |-> "invalid token"] }
Payloads ==
    { [wellFormed |-> TRUE, obj |-> o] : o \in JSONObjects }
      \cup { [wellFormed |-> FALSE, obj |-> <<>>] }

RespCookieSets == { <<>>, <<"AUTH-u1=a/2">> }
Statuses == {200, StatusUnauthorized}

\* request bodies handed to the builder
JSONValues == {"null", "obj"}
StreamData == <<"x">>

(***************************************************************************)
(* State.                                                                  *)
(***************************************************************************)
VARIABLES
    uid,          \* Client.uid (the session identity)
    accessToken,  \* Client.accessToken
    authToken,    \* Client.authToken
    keyRing,      \* Client.keyRing
    ReAuth,       \* Client.ReAuth: "nil" or "func"
    pc,           \* per caller: position in the code
    entry,        \* per caller: "do", "doJSON" or "doJSONWithCookies"
    respData,     \* per caller: destination shape handed to doJSON
    req,          \* per caller: the *http.Request
    resp,         \* per caller: the *http.Response of the innermost send
    err,          \* per caller: the error do returns
    result,       \* per caller: what the entry point returned
    sentAuth,     \* per caller: the Authorization header of the last send
    payload,      \* per caller: the response body the decoder read
    sends,        \* per caller: number of httpClient.Do calls
    hookCalls,    \* per caller: number of c.ReAuth() calls
    hookRet,      \* per caller: what the last c.ReAuth() returned
    hookWrote,    \* per caller: the last c.ReAuth() assigned c.accessToken
    leaked,       \* per caller: a response body went out of reach unclosed
    firstBody,    \* per caller: the body bytes the first send handed over
    lastBody,     \* per caller: the body bytes the last send handed over
    guarded,      \* per caller: number of 401s received that pass the retry guards
    stale,        \* Authorization values rejected by a guarded 401 and cleared,
                  \* and not set again by the hook since
    respCookies   \* per caller: the cookies of the response the decoder read

creds == <<uid, accessToken, authToken, keyRing>>
client == <<uid, accessToken, authToken, keyRing, ReAuth>>
history == <<sentAuth, payload, sends, hookCalls, hookRet, hookWrote, leaked,
             firstBody, lastBody, guarded, stale, respCookies>>
vars == <<uid, accessToken, authToken, keyRing, ReAuth, pc, entry, respData,
          req, resp, err, result, sentAuth, payload, sends, hookCalls, hookRet, hookWrote,
          leaked, firstBody, lastBody, guarded, stale, respCookies>>

Inc(n, max) == IF n < max THEN n + 1 ELSE n
Log(s, e, max) == IF Len(s) < max THEN Append(s, e) ELSE s

(***************************************************************************)
(* http.Header and http.Request helpers (net/http, as the code uses them). *)
(***************************************************************************)
\* Header.Set(k, v): replaces the value of k
HeaderSet(h, k, v) == [x \in (DOMAIN h) \cup {k} |-> IF x = k THEN v ELSE h[x]]

\* url.QueryEscape on the auth token values of the model
QueryEscape(s) == IF s = "a/2" THEN "a%2F2" ELSE s

\* req.AddCookie(c): appends to the request's Cookie line, replaces nothing
AddCookie(r, c) == [r EXCEPT !.Cookies = Log(r.Cookies, c, MaxCookies)]

NoBody == [present |-> FALSE, data |-> <<>>, pos |-> 0]
NoRequest == [Header |-> <<>>, Cookies |-> <<>>, Body |-> NoBody, GetBody |-> "nil",
              replay |-> <<>>]
NoResponse == [StatusCode |-> 0, Body |-> "none"]
NoPayload == [wellFormed |-> FALSE, obj |-> <<>>]
\* what an entry point returned: its error and, for doJSONWithCookies, its
\* cookie slice (nilCookies: the slice is nil)
Result(e, ck, isNil) == [returned |-> TRUE, err |-> e, cookies |-> ck, nilCookies |-> isNil]
NoResult == [returned |-> FALSE, err |-> NoErr, cookies |-> <<>>, nilCookies |-> TRUE]

(***************************************************************************)
(* Request Builder.                                                        *)
(***************************************************************************)
\* the cookie setRequestAuthorization builds
AuthCookie == [Name |-> "AUTH-" \o uid, Value |-> QueryEscape(authToken)]

\* the value of the Authorization header setRequestAuthorization writes
BearerValue(tok) == "Bearer " \o tok

\* faulty variant: an Authorization header already on the request is kept
\* (Header.Add in place of Header.Set: the first value is the one sent)
SetRequestAuthorizationAdd(r) ==
    IF uid /= ""
    THEN LET r1 == [r EXCEPT !.Header = HeaderSet(r.Header, "X-Pm-Uid", uid)]
             r2 == IF authToken /= "" THEN AddCookie(r1, AuthCookie) ELSE r1
         IN  IF accessToken /= "" /\ "Authorization" \notin DOMAIN r2.Header
             THEN [r2 EXCEPT !.Header =
                       HeaderSet(r2.Header, "Authorization", BearerValue(accessToken))]
             ELSE r2
    ELSE r

\* faulty variant: the tokens are attached without looking at the uid
SetRequestAuthorizationNoUid(r) ==
    LET r1 == IF uid /= ""
              THEN [r EXCEPT !.Header = HeaderSet(r.Header, "X-Pm-Uid", uid)]
              ELSE r
        r2 == IF authToken /= "" THEN AddCookie(r1, AuthCookie) ELSE r1
    IN  IF accessToken /= ""
        THEN [r2 EXCEPT !.Header =
                  HeaderSet(r2.Header, "Authorization", BearerValue(accessToken))]
        ELSE r2

SetRequestAuthorization(r) ==
    IF uid /= ""
    THEN LET r1 == [r EXCEPT !.Header = HeaderSet(r.Header, "X-Pm-Uid", uid)]
             r2 == IF authToken /= "" THEN AddCookie(r1, AuthCookie) ELSE r1
         IN  IF accessToken /= ""
             THEN [r2 EXCEPT !.Header =
                       HeaderSet(r2.Header, "Authorization", BearerValue(accessToken))]
             ELSE r2
    ELSE r

\* strconv.Itoa on the one number the code formats
Itoa(n) == IF n = 3 THEN "3" ELSE "?"

\* http.NewRequest: a nil body gives no Body; a *bytes.Reader body gets a
\* replay function over a snapshot of its bytes (replay: the bytes the replay
\* function has captured), any other io.Reader does not
HTTPNewRequest(bodyKind, data) ==
    [Header |-> <<>>, Cookies |-> <<>>,
     Body |-> IF bodyKind = "nil" THEN NoBody
              ELSE [present |-> TRUE, data |-> data, pos |-> 0],
     GetBody |-> IF bodyKind = "bytes" THEN "reader" ELSE "nil",
     replay |-> IF bodyKind = "bytes" THEN data ELSE <<>>]

NewRequest(bodyKind, data) ==
    LET r0 == HTTPNewRequest(bodyKind, data)
        r1 == [r0 EXCEPT !.Header = HeaderSet(r0.Header, headerAppVersion, AppVersion)]
        r2 == [r1 EXCEPT !.Header = HeaderSet(r1.Header, headerAPIVersion, Itoa(Version))]
    IN  SetRequestAuthorization(r2)

\* json.Marshal on the body values of the model
Marshal(v) ==
    IF v = "null" THEN <<"n", "u", "l", "l">>
    ELSE <<"{", "a", ":", "1", "}">>

\* json.NewEncoder(&buf).Encode(body): the encoding followed by a newline
Encode(v) == Marshal(v) \o <<"\n">>

NewJSONRequest(v) ==
    LET b == Encode(v)
        r0 == NewRequest("bytes", b)
        r1 == [r0 EXCEPT !.Header = HeaderSet(r0.Header, "Content-Type", "application/json")]
    IN  [r1 EXCEPT !.GetBody = "json", !.replay = b]

\* faulty variant: the replay function hands back the reader the first send
\* has read to its end
GetBodySpent(r) == [present |-> TRUE, data |-> r.replay, pos |-> Len(r.replay)]

\* req.GetBody(): a fresh reader over the captured bytes (lines 116-118)
GetBody(r) == [present |-> TRUE, data |-> r.replay, pos |-> 0]

(***************************************************************************)
(* Transport Executor: the tests of do.                                    *)
(***************************************************************************)
HasAuth(r) == "Authorization" \in DOMAIN r.Header

\* faulty variant: the replay function is not asked for
CanRetryAlways(r) == TRUE

CanRetry(r) == (~r.Body.present) \/ r.GetBody /= "nil"

\* faulty variant: the test for the Authorization header is left out
ShouldReAuthAnonymous(rsp, r) ==
    /\ rsp.StatusCode = StatusUnauthorized
    /\ ReAuth /= "nil"
    /\ CanRetry(r)

\* faulty variant: the hook is skipped when the access token is no longer the
\* one the request carries (another call has refreshed it already)
ShouldReAuthDeduplicated(rsp, r) ==
    /\ rsp.StatusCode = StatusUnauthorized
    /\ "Authorization" \in DOMAIN r.Header
    /\ ReAuth /= "nil"
    /\ CanRetry(r)
    /\ r.Header["Authorization"] = BearerValue(accessToken)

ShouldReAuth(rsp, r) ==
    /\ rsp.StatusCode = StatusUnauthorized
    /\ HasAuth(r)
    /\ ReAuth /= "nil"
    /\ CanRetry(r)

\* what the transport reads from the request: the unread rest of the body
BodySent(r) == SubSeq(r.Body.data, r.Body.pos + 1, Len(r.Body.data))
Consumed(r) == [r EXCEPT !.Body.pos = Len(r.Body.data)]

AuthorizationOf(r) ==
    IF "Authorization" \in DOMAIN r.Header THEN r.Header["Authorization"] ELSE "<absent>"

\* a 401 that arrived without a transport error for a request that carries
\* an Authorization header and can be replayed, on a client with a hook
PassesGuards(e, rsp, r) ==
    /\ e = NoErr
    /\ rsp.StatusCode = StatusUnauthorized
    /\ "Authorization" \in DOMAIN r.Header
    /\ ReAuth = "func"
    /\ (r.Body.present => r.GetBody /= "nil")

\* faulty variant: a transport error is answered by sending a replayable request again
AfterSendResend(e, rsp, r) ==
    IF e /= NoErr THEN (IF CanRetry(r) THEN "getbody" ELSE "return")
    ELSE IF ShouldReAuth(rsp, r) THEN "close"
    ELSE "return"

\* lines 128-136 and 153 of do: where the code goes after httpClient.Do
AfterSend(e, rsp, r) ==
    IF e /= NoErr THEN "return"
    ELSE IF ShouldReAuth(rsp, r) THEN "close"
    ELSE "return"

\* resp.Body.Close()
CloseBody(rsp) == [rsp EXCEPT !.Body = IF rsp.Body = "none" THEN "none" ELSE "closed"]

\* faulty variant: the 401 response is dropped without closing its body
Close401BodyForgotten(rsp) == rsp

\* line 137 of do: resp.Body.Close() before the retry
Close401Body(rsp) == CloseBody(rsp)

\* faulty variant: the access token is left as it was
ClearedTokenKept(tok) == tok

\* c.accessToken = ""
ClearedToken(tok) == ""

\* faulty variant: the error of the hook is ignored
AfterReAuthIgnoreErr(e) == "reattach"

\* lines 139-141 of do: where the code goes after c.ReAuth()
AfterReAuth(e) == IF e /= NoErr THEN "return" ELSE "reattach"

(***************************************************************************)
(* Response Decoder.                                                       *)
(***************************************************************************)
NilRawAPIError == [set |-> FALSE, Message |-> ""]

\* json.Decode into the resp struct: Code from "Code", and the embedded
\* *RawAPIError is allocated as soon as the body holds an "Error" key
DecodeResp(o) ==
    [Code |-> IF "Code" \in DOMAIN o THEN o["Code"] ELSE 0,
     RawAPIError |-> IF "Error" \in DOMAIN o
                     THEN [set |-> TRUE, Message |-> o["Error"]]
                     ELSE NilRawAPIError]

\* faulty variant: the error is built without the Code of the body
RespErrNoCode(r) ==
    IF r.RawAPIError.set
    THEN MkErr("APIError", 0, r.RawAPIError.Message)
    ELSE NoErr

\* (*resp).Err
RespErr(r) ==
    IF r.RawAPIError.set
    THEN MkErr("APIError", r.Code, r.RawAPIError.Message)
    ELSE NoErr

\* respData.(maybeError): new(resp) and the shapes that embed resp
ImplementsMaybeError(dest) == dest \in {"nil", "withErr"}

\* faulty variant: the error of Decode is dropped
DecodeErrLenient(pl, dest) ==
    IF ImplementsMaybeError(dest) THEN RespErr(DecodeResp(pl.obj)) ELSE NoErr

\* the decoding and error check of doJSON / doJSONWithCookies
DecodeErr(pl, dest) ==
    IF ~pl.wellFormed THEN ErrDecode
    ELSE IF ImplementsMaybeError(dest) THEN RespErr(DecodeResp(pl.obj))
    ELSE NoErr

\* Client.doJSON once c.do has returned (doErr, and a response whose body
\* reads as pl)
DoJSON(doErr, pl, dest) ==
    IF doErr /= NoErr THEN Result(doErr, <<>>, TRUE)
    ELSE Result(DecodeErr(pl, dest), <<>>, TRUE)

\* faulty variant: the cookies are returned without the maybeError check
DoJSONWithCookiesUnchecked(doErr, pl, dest, ck) ==
    IF doErr /= NoErr THEN Result(doErr, <<>>, TRUE)
    ELSE IF ~pl.wellFormed THEN Result(ErrDecode, <<>>, TRUE)
    ELSE Result(NoErr, ck, FALSE)

\* Client.doJSONWithCookies once c.do has returned; ck are the cookies of
\* the response (resp.Cookies(), never nil)
DoJSONWithCookies(doErr, pl, dest, ck) ==
    IF doErr /= NoErr THEN Result(doErr, <<>>, TRUE)
    ELSE IF ~pl.wellFormed THEN Result(ErrDecode, <<>>, TRUE)
    ELSE IF ImplementsMaybeError(dest) /\ RespErr(DecodeResp(pl.obj)) /= NoErr
    THEN Result(RespErr(DecodeResp(pl.obj)), <<>>, TRUE)
    ELSE Result(NoErr, ck, FALSE)

(***************************************************************************)
(* Initial states: a constructed client whose Credential State the login   *)
(* flow has (or has not) populated, with or without a re-authentication    *)
(* hook; no caller has started.                                            *)
(***************************************************************************)
Init ==
    /\ uid \in Uids
    /\ accessToken \in AccessTokens
    /\ authToken \in AuthTokens
    /\ keyRing \in KeyRings
    /\ ReAuth \in {"nil", "func"}
    /\ pc = [p \in Callers |-> "idle"]
    /\ entry = [p \in Callers |-> "do"]
    /\ respData = [p \in Callers |-> "nil"]
    /\ req = [p \in Callers |-> NoRequest]
    /\ resp = [p \in Callers |-> NoResponse]
    /\ err = [p \in Callers |-> NoErr]
    /\ result = [p \in Callers |-> NoResult]
    /\ sentAuth = [p \in Callers |-> "<absent>"]
    /\ payload = [p \in Callers |-> NoPayload]
    /\ sends = [p \in Callers |-> 0]
    /\ hookCalls = [p \in Callers |-> 0]
    /\ hookRet = [p \in Callers |-> NoErr]
    /\ hookWrote = [p \in Callers |-> FALSE]
    /\ leaked = [p \in Callers |-> FALSE]
    /\ firstBody = [p \in Callers |-> <<>>]
    /\ lastBody = [p \in Callers |-> <<>>]
    /\ guarded = [p \in Callers |-> 0]
    /\ stale = {}
    /\ respCookies = [p \in Callers |-> <<>>]

(***************************************************************************)
(* Request Builder actions.                                                *)
(***************************************************************************)
\* c.newRequest(method, path, body); the caller may then install its own
\* replay function on a request whose body http.NewRequest cannot replay
BuildRequest(p) ==
    /\ pc[p] = "idle"
    /\ \E bodyKind \in {"nil", "bytes", "stream"}, valid \in BOOLEAN, custom \in BOOLEAN :
          /\ custom => bodyKind = "stream"
          /\ IF valid
             THEN /\ req' = [req EXCEPT ![p] =
                         LET r == NewRequest(bodyKind, StreamData)
                         IN  IF custom
                             THEN [r EXCEPT !.GetBody = "custom", !.replay = StreamData]
                             ELSE r]
                  /\ pc' = [pc EXCEPT ![p] = "built"]
                  /\ UNCHANGED result
             ELSE /\ ~custom
                  /\ result' = [result EXCEPT ![p] =
                         Result(ErrNewRequest, <<>>, TRUE)]
                  /\ pc' = [pc EXCEPT ![p] = "done"]
                  /\ UNCHANGED req
    /\ UNCHANGED <<client, entry, respData, resp, err, history>>

\* c.newJSONRequest(method, path, body)
BuildJSONRequest(p) ==
    /\ pc[p] = "idle"
    /\ \E v \in JSONValues \cup {"unsupported"} :
          IF v \in JSONValues
          THEN /\ req' = [req EXCEPT ![p] = NewJSONRequest(v)]
               /\ pc' = [pc EXCEPT ![p] = "built"]
               /\ UNCHANGED result
          ELSE /\ result' = [result EXCEPT ![p] =
                      Result(ErrEncode, <<>>, TRUE)]
               /\ pc' = [pc EXCEPT ![p] = "done"]
               /\ UNCHANGED req
    /\ UNCHANGED <<client, entry, respData, resp, err, history>>

(***************************************************************************)
(* Entry points: c.do(req) directly, or doJSON / doJSONWithCookies up to   *)
(* their call of c.do.                                                     *)
(***************************************************************************)
Call(p) ==
    /\ pc[p] = "built"
    /\ \E e \in {"do", "doJSON", "doJSONWithCookies"}, d \in {"nil", "withErr", "plain"} :
          /\ e = "do" => d = "nil"
          /\ entry' = [entry EXCEPT ![p] = e]
          /\ respData' = [respData EXCEPT ![p] = d]
          /\ req' = [req EXCEPT ![p] =
                 IF e = "do" THEN req[p]
                 ELSE [req[p] EXCEPT !.Header =
                          HeaderSet(req[p].Header, "Accept", "application/json")]]
    /\ pc' = [pc EXCEPT ![p] = "send"]
    /\ UNCHANGED <<client, resp, err, result, history>>

(***************************************************************************)
(* Transport Executor actions (do).                                        *)
(***************************************************************************)
\* httpClient.Do(req) and the tests that follow it
Send(p) ==
    /\ pc[p] = "send"
    /\ \E e \in {NoErr, ErrTransport}, st \in Statuses :
          LET rsp == IF e = NoErr
                     THEN [StatusCode |-> st, Body |-> "open"]
                     ELSE NoResponse
          IN  /\ e /= NoErr => st = 200
              /\ resp' = [resp EXCEPT ![p] = rsp]
              /\ err' = [err EXCEPT ![p] = e]
              /\ pc' = [pc EXCEPT ![p] = AfterSend(e, rsp, req[p])]
              /\ guarded' = [guarded EXCEPT ![p] =
                     IF PassesGuards(e, rsp, req[p]) THEN Inc(@, MaxHookCalls) ELSE @]
    /\ sentAuth' = [sentAuth EXCEPT ![p] = AuthorizationOf(req[p])]
    /\ firstBody' = [firstBody EXCEPT ![p] = IF sends[p] = 0 THEN BodySent(req[p]) ELSE @]
    /\ lastBody' = [lastBody EXCEPT ![p] = BodySent(req[p])]
    /\ req' = [req EXCEPT ![p] = Consumed(@)]
    /\ sends' = [sends EXCEPT ![p] = Inc(@, MaxSends)]
    /\ leaked' = [leaked EXCEPT ![p] = @ \/ resp[p].Body = "open"]
    /\ UNCHANGED <<client, entry, respData, result, payload, hookCalls, hookRet, hookWrote,
                   stale, respCookies>>

\* resp.Body.Close() of the retry path
Close401(p) ==
    /\ pc[p] = "close"
    /\ resp' = [resp EXCEPT ![p] = Close401Body(resp[p])]
    /\ pc' = [pc EXCEPT ![p] = "clear"]
    /\ UNCHANGED <<client, entry, respData, req, err, result, history>>

\* c.accessToken = ""
ClearToken(p) ==
    /\ pc[p] = "clear"
    /\ accessToken' = ClearedToken(accessToken)
    /\ pc' = [pc EXCEPT ![p] = "reauth"]
    /\ stale' = stale \cup ({sentAuth[p]} \ {"<absent>"})
    /\ UNCHANGED <<uid, authToken, keyRing, ReAuth, entry, respData, req, resp,
                   err, result, sentAuth, payload, sends, hookCalls, hookRet,
                   hookWrote, leaked, firstBody, lastBody, guarded, respCookies>>

\* c.ReAuth(): the external hook; it may rewrite the Credential State and
\* returns nil or an error
ReAuthHook(p) ==
    /\ pc[p] = "reauth"
    /\ \E e \in {NoErr} \cup HookErrs, w \in BOOLEAN,
          u \in Uids, t \in AccessTokens, a \in AuthTokens :
          /\ ~w => t = accessToken
          /\ uid' = u
          /\ accessToken' = t
          /\ authToken' = a
          /\ hookRet' = [hookRet EXCEPT ![p] = e]
          /\ hookWrote' = [hookWrote EXCEPT ![p] = w]
          /\ err' = [err EXCEPT ![p] = e]
          /\ pc' = [pc EXCEPT ![p] = AfterReAuth(e)]
          /\ stale' = IF w THEN stale \ {BearerValue(t)} ELSE stale
    /\ hookCalls' = [hookCalls EXCEPT ![p] = Inc(@, MaxHookCalls)]
    /\ UNCHANGED <<keyRing, ReAuth, entry, respData, req, resp, result, sentAuth,
                   payload, sends, leaked, firstBody, lastBody, guarded, respCookies>>

\* c.setRequestAuthorization(req) of the retry path
Reattach(p) ==
    /\ pc[p] = "reattach"
    /\ req' = [req EXCEPT ![p] = SetRequestAuthorization(@)]
    /\ pc' = [pc EXCEPT ![p] = "getbody"]
    /\ UNCHANGED <<client, entry, respData, resp, err, result, history>>

\* lines 143-150 of do: the body is re-materialized and do is called again
ReplayBody(p) ==
    /\ pc[p] = "getbody"
    /\ IF ~req[p].Body.present
       THEN /\ pc' = [pc EXCEPT ![p] = "send"]
            /\ UNCHANGED <<req, err>>
       ELSE IF req[p].GetBody = "nil"
       THEN /\ pc' = [pc EXCEPT ![p] = "panic"]
            /\ UNCHANGED <<req, err>>
       ELSE \E e \in {NoErr, ErrGetBody} :
              /\ e /= NoErr => req[p].GetBody = "custom"
              /\ IF e = NoErr
                 THEN /\ req' = [req EXCEPT ![p].Body = GetBody(req[p])]
                      /\ pc' = [pc EXCEPT ![p] = "send"]
                      /\ UNCHANGED err
                 ELSE /\ err' = [err EXCEPT ![p] = e]
                      /\ pc' = [pc EXCEPT ![p] = "return"]
                      /\ UNCHANGED req
    /\ UNCHANGED <<client, entry, respData, resp, result, history>>

(***************************************************************************)
(* Response Decoder actions: what the entry point does once c.do returned. *)
(***************************************************************************)
\* the caller of c.do itself receives (resp, err) as they are
ReturnDo(p) ==
    /\ pc[p] = "return"
    /\ entry[p] = "do"
    /\ result' = [result EXCEPT ![p] = Result(err[p], <<>>, TRUE)]
    /\ pc' = [pc EXCEPT ![p] = "done"]
    /\ UNCHANGED <<client, entry, respData, req, resp, err, history>>

\* doJSON / doJSONWithCookies after c.do: the error of do is returned, or the
\* body is decoded, checked for an API error and closed (defer)
Decode(p) ==
    /\ pc[p] = "return"
    /\ entry[p] \in {"doJSON", "doJSONWithCookies"}
    /\ IF err[p] /= NoErr
       THEN /\ result' = [result EXCEPT ![p] =
                   IF entry[p] = "doJSON"
                   THEN DoJSON(err[p], payload[p], respData[p])
                   ELSE DoJSONWithCookies(err[p], payload[p], respData[p], <<>>)]
            /\ UNCHANGED <<resp, payload, respCookies>>
       ELSE \E pl \in Payloads, ck \in RespCookieSets :
              /\ payload' = [payload EXCEPT ![p] = pl]
              /\ respCookies' = [respCookies EXCEPT ![p] = ck]
              /\ result' = [result EXCEPT ![p] =
                     IF entry[p] = "doJSON"
                     THEN DoJSON(err[p], pl, respData[p])
                     ELSE DoJSONWithCookies(err[p], pl, respData[p], ck)]
              /\ resp' = [resp EXCEPT ![p] = CloseBody(resp[p])]
    /\ pc' = [pc EXCEPT ![p] = "done"]
    /\ UNCHANGED <<client, entry, respData, req, err, sentAuth, sends, hookCalls,
                   hookRet, hookWrote, leaked, firstBody, lastBody, guarded, stale>>

(***************************************************************************)
(* Specifications.  Spec: one caller drives the client.  FairSpec: the     *)
(* same, and a caller that can take a step eventually takes it (the code   *)
(* runs on; the transport and the hook return).                            *)
(***************************************************************************)
Step(p) ==
    \/ BuildRequest(p)
    \/ BuildJSONRequest(p)
    \/ Call(p)
    \/ Send(p)
    \/ Close401(p)
    \/ ClearToken(p)
    \/ ReAuthHook(p)
    \/ Reattach(p)
    \/ ReplayBody(p)
    \/ ReturnDo(p)
    \/ Decode(p)

Next == \E p \in {1} : Step(p)

Spec == Init /\ [][Next]_vars

FairSpec == Init /\ [][Next]_vars /\ WF_vars(Next)

(***************************************************************************)
(* ConcSpec: two callers share one client.  Both are logged in (uid and    *)
(* access token set), the client has a hook, and each caller sends a       *)
(* request without a body through c.do; the hook rewrites the access token *)
(* only.  Their steps interleave freely.                                   *)
(***************************************************************************)
Pair == {1, 2}

ConcInit ==
    /\ Init
    /\ uid = "u1"
    /\ accessToken = "t1"
    /\ ReAuth = "func"

ConcStep(p) ==
    \/ BuildRequest(p) /\ pc'[p] = "built" /\ ~req'[p].Body.present
    \/ Call(p) /\ entry'[p] = "do"
    \/ Send(p)
    \/ Close401(p)
    \/ ClearToken(p)
    \/ ReAuthHook(p) /\ uid' = uid /\ authToken' = authToken
    \/ Reattach(p)
    \/ ReplayBody(p)
    \/ ReturnDo(p)

ConcNext == \E p \in Pair : ConcStep(p)

ConcSpec == ConcInit /\ [][ConcNext]_vars

(***************************************************************************)
(* Properties.                                                             *)
(***************************************************************************)
InRetryPath(p) == pc[p] \in {"close", "clear", "reauth", "reattach", "getbody"}
Returned(p) == pc[p] \in {"return", "done"}
ViaDoJSON(p) == entry[p] \in {"doJSON", "doJSONWithCookies"}

\* C1: a call of do whose request carries an Authorization header, has no
\* body or a replayable body, and whose client has a re-authentication hook,
\* hands the request to the transport at most twice and invokes the hook at
\* most once.
AtMostOneRetry ==
    \A p \in Callers :
        (HasAuth(req[p]) /\ CanRetry(req[p]) /\ ReAuth /= "nil")
            => (sends[p] <= 2 /\ hookCalls[p] <= 1)

\* C2: every call of do that was started returns.
EveryCallReturns == \A p \in {1} : (pc[p] = "send") ~> Returned(p)

\* C3: a request without an Authorization header, or a client without a
\* hook, is sent exactly once, the hook is not invoked, and a 401 comes back
\* from do with its body open and no error.
AnonymousNeverRetried ==
    \A p \in Callers :
        (pc[p] /= "idle" /\ (~HasAuth(req[p]) \/ ReAuth = "nil"))
            => /\ ~InRetryPath(p)
               /\ hookCalls[p] = 0
               /\ sends[p] <= 1
               /\ pc[p] = "return" => sends[p] = 1
               /\ (pc[p] = "return" /\ resp[p].StatusCode = StatusUnauthorized)
                     => (err[p] = NoErr /\ resp[p].Body = "open")

AnonymousNeverRetriedWitness ==
    /\ pc[1] = "return"
    /\ ~HasAuth(req[1])
    /\ ReAuth = "func"
    /\ resp[1].StatusCode = StatusUnauthorized
    /\ sends[1] = 1

\* C4: a request with a body and no replay function that carries an
\* Authorization header is sent exactly once and the hook is not invoked,
\* with or without a hook configured.
NonReplayableNeverRetried ==
    \A p \in Callers :
        (req[p].Body.present /\ req[p].GetBody = "nil" /\ HasAuth(req[p]))
            => /\ ~InRetryPath(p)
               /\ hookCalls[p] = 0
               /\ sends[p] <= 1
               /\ Returned(p) => sends[p] = 1

NonReplayableNeverRetriedWitness ==
    /\ pc[1] = "return"
    /\ req[1].Body.present /\ req[1].GetBody = "nil" /\ HasAuth(req[1])
    /\ ReAuth = "func"
    /\ resp[1].StatusCode = StatusUnauthorized
    /\ sends[1] = 1

\* C5: once the hook has returned an error, do returns that very error, the
\* entry point returns it, and the request is not sent again.
HookErrorIsTerminal ==
    \A p \in Callers :
        hookRet[p] /= NoErr
            => /\ Returned(p)
               /\ err[p] = hookRet[p]
               /\ pc[p] = "done" => result[p].err = hookRet[p]

HookErrorIsTerminalWitness ==
    /\ pc[1] = "done"
    /\ entry[1] = "doJSON"
    /\ hookRet[1] = ErrReAuthDenied
    /\ result[1].err = ErrReAuthDenied
    /\ sends[1] = 1

\* C6: when the hook returned an error and did not itself write the access
\* token, the access token is empty when the call returns.
TokenEmptyAfterHookError ==
    \A p \in Callers :
        (Returned(p) /\ hookRet[p] /= NoErr /\ ~hookWrote[p]) => accessToken = ""

TokenEmptyAfterHookErrorWitness ==
    /\ pc[1] = "done"
    /\ hookRet[1] /= NoErr
    /\ ~hookWrote[1]
    /\ sentAuth[1] = "Bearer t1"
    /\ accessToken = ""

\* C7: first send 401, the hook succeeds and leaves a session with a new
\* access token t2, second send not 401 and its body carries no error: the
\* result is success, there were exactly two sends and the second carried
\* "Bearer t2".
RetryCarriesNewToken ==
    \A p \in Callers :
        ( /\ pc[p] = "done" /\ ViaDoJSON(p)
          /\ hookCalls[p] = 1 /\ hookRet[p] = NoErr
          /\ uid /= "" /\ accessToken /= ""
          /\ err[p] = NoErr /\ resp[p].StatusCode /= StatusUnauthorized
          /\ payload[p].wellFormed /\ "Error" \notin DOMAIN payload[p].obj )
            => /\ result[p].err = NoErr
               /\ sends[p] = 2
               /\ sentAuth[p] = "Bearer " \o accessToken

RetryCarriesNewTokenWitness ==
    /\ pc[1] = "done" /\ entry[1] = "doJSON"
    /\ hookCalls[1] = 1 /\ hookRet[1] = NoErr /\ hookWrote[1]
    /\ uid = "u1" /\ accessToken = "t2"
    /\ resp[1].StatusCode = 200
    /\ payload[1] = [wellFormed |-> TRUE, obj |-> [Code |-> 1000]]
    /\ result[1].err = NoErr
    /\ sends[1] = 2
    /\ sentAuth[1] = "Bearer t2"

\* C8: a send that fails with a transport error makes do return that error
\* at once: the step changes no credential and invokes no hook, and
\* afterwards nothing more is sent, no hook runs and the entry point
\* returns the transport error.
TransportErrorImmediate ==
    [][\A p \in Callers :
          /\ (pc[p] = "send" /\ pc'[p] /= "send" /\ err'[p] = ErrTransport)
                => (pc'[p] = "return" /\ creds' = creds /\ hookCalls' = hookCalls)
          /\ err[p] = ErrTransport
                => /\ Returned(p) /\ pc'[p] \in {"return", "done"}
                   /\ sends'[p] = sends[p] /\ hookCalls'[p] = hookCalls[p]
                   /\ err'[p] = ErrTransport
                   /\ pc'[p] = "done" => result'[p].err = ErrTransport]_vars

TransportErrorImmediateWitness ==
    /\ pc[1] = "done"
    /\ err[1] = ErrTransport
    /\ result[1].err = ErrTransport
    /\ sends[1] = 2
    /\ hookCalls[1] = 1

\* C9: when doJSON / doJSONWithCookies has returned, every response body
\* the transport handed over during the call is closed.
BodiesClosedOnReturn ==
    \A p \in Callers :
        (pc[p] = "done" /\ ViaDoJSON(p)) => (resp[p].Body /= "open" /\ ~leaked[p])

BodiesClosedOnReturnWitness ==
    /\ pc[1] = "done" /\ entry[1] = "doJSONWithCookies"
    /\ sends[1] = 2 /\ hookCalls[1] = 1
    /\ resp[1].Body = "closed"
    /\ result[1].err = NoErr

\* C10: a decoded body whose error message is absent or the empty string
\* yields no error.
NoErrorWithoutMessage ==
    \A p \in Callers :
        ( /\ pc[p] = "done" /\ ViaDoJSON(p) /\ err[p] = NoErr
          /\ payload[p].wellFormed
          /\ ("Error" \notin DOMAIN payload[p].obj \/ payload[p].obj["Error"] = "") )
            => result[p].err = NoErr

\* C11: with no destination shape the body is decoded as the generic
\* envelope: a body with Code c and no Error gives no error, a body with
\* Code c and a non-empty Error m gives the API error (c, m).
EnvelopeDecoding ==
    \A p \in Callers :
        ( /\ pc[p] = "done" /\ ViaDoJSON(p) /\ err[p] = NoErr
          /\ respData[p] = "nil"
          /\ payload[p].wellFormed /\ "Code" \in DOMAIN payload[p].obj )
            => LET o == payload[p].obj
               IN  /\ "Error" \notin DOMAIN o => result[p].err = NoErr
                   /\ ("Error" \in DOMAIN o /\ o["Error"] /= "")
                         => result[p].err = MkErr("APIError", o["Code"], o["Error"])

EnvelopeDecodingWitness ==
    /\ pc[1] = "done" /\ entry[1] = "doJSON" /\ respData[1] = "nil"
    /\ resp[1].StatusCode = 200
    /\ payload[1].wellFormed
    /\ payload[1].obj = [Code |-> 401, Error |-> "invalid token"]
    /\ result[1].err = MkErr("APIError", 401, "invalid token")

\* C12: a body that is not JSON makes doJSON / doJSONWithCookies return the
\* decoding error, which is no API error, and no cookies.
MalformedBodyFails ==
    \A p \in Callers :
        (pc[p] = "done" /\ ViaDoJSON(p) /\ err[p] = NoErr /\ ~payload[p].wellFormed)
            => /\ result[p].err = ErrDecode
               /\ result[p].err /= NoErr
               /\ result[p].err.kind /= "APIError"
               /\ result[p].cookies = <<>>

MalformedBodyFailsWitness ==
    /\ pc[1] = "done" /\ entry[1] = "doJSONWithCookies" /\ respData[1] = "withErr"
    /\ err[1] = NoErr /\ resp[1].Body = "closed"
    /\ ~payload[1].wellFormed
    /\ result[1].err = ErrDecode

\* C13: for a request built by newJSONRequest every send, the first and
\* each resend, hands over exactly the bytes serialized at construction, and
\* the replay function supplies those bytes on every call.
ReplayIsByteIdentical ==
    \A p \in Callers :
        req[p].GetBody = "json"
            => /\ \E v \in JSONValues : req[p].replay = Encode(v)
               /\ GetBody(req[p]).data = req[p].replay /\ GetBody(req[p]).pos = 0
               /\ sends[p] >= 1
                     => (firstBody[p] = req[p].replay /\ lastBody[p] = firstBody[p])
               /\ pc[p] = "send" => BodySent(req[p]) = req[p].replay

ReplayIsByteIdenticalWitness ==
    /\ req[1].GetBody = "json"
    /\ sends[1] = 2 /\ hookCalls[1] = 1
    /\ req[1].Body.pos = Len(req[1].Body.data)
    /\ firstBody[1] = Encode("obj")
    /\ lastBody[1] = Encode("obj")

\* C20: doJSONWithCookies returns the error doJSON returns for the same
\* outcome of c.do, the same body and the same destination shape; it returns
\* the cookies of the response when that error is nil and a nil slice
\* otherwise.
CookieVariantAgrees ==
    \A p \in Callers :
        (pc[p] = "done" /\ entry[p] = "doJSONWithCookies")
            => /\ result[p].err = DoJSON(err[p], payload[p], respData[p]).err
               /\ result[p].err = NoErr
                     => (result[p].cookies = respCookies[p] /\ ~result[p].nilCookies)
               /\ result[p].err /= NoErr
                     => (result[p].cookies = <<>> /\ result[p].nilCookies)

CookieVariantAgreesWitness ==
    /\ pc[1] = "done" /\ entry[1] = "doJSONWithCookies" /\ respData[1] = "withErr"
    /\ err[1] = NoErr
    /\ payload[1].wellFormed
    /\ payload[1].obj = [Code |-> 401, Error |-> "invalid token"]
    /\ respCookies[1] /= <<>>
    /\ result[1].err = MkErr("APIError", 401, "invalid token")
    /\ result[1].cookies = <<>>

\* C14: a request the builder has just built carries the X-Pm-Uid header
\* iff uid is non-empty, the cookie AUTH-<uid> iff uid and authToken are
\* non-empty, and the Bearer Authorization header iff uid and accessToken are
\* non-empty.
BuilderAttachesByCredentials ==
    \A p \in Callers :
        pc[p] = "built"
            => LET h == req[p].Header
               IN  /\ "X-Pm-Uid" \in DOMAIN h <=> uid /= ""
                   /\ uid /= "" => h["X-Pm-Uid"] = uid
                   /\ req[p].Cookies /= <<>> <=> (uid /= "" /\ authToken /= "")
                   /\ req[p].Cookies /= <<>>
                         => /\ Len(req[p].Cookies) = 1
                            /\ req[p].Cookies[1].Name = "AUTH-" \o uid
                   /\ "Authorization" \in DOMAIN h <=> (uid /= "" /\ accessToken /= "")
                   /\ "Authorization" \in DOMAIN h
                         => h["Authorization"] = "Bearer " \o accessToken

BuilderAttachesByCredentialsWitness ==
    /\ pc[1] = "built"
    /\ uid = "" /\ accessToken = "t1" /\ authToken = "a/2"
    /\ req[1].GetBody = "json"
    /\ req[1].Cookies = <<>>
    /\ DOMAIN req[1].Header = {headerAppVersion, headerAPIVersion, "Content-Type"}

\* C17: on the retry path the 401 body is closed, then the access token is
\* cleared, then the hook runs with the token empty; authorization is
\* re-attached, the body replayed and the request resent only after the hook
\* returned nil; only the hook gives the token a non-empty value.
RetryPathOrder ==
    [][\A p \in Callers :
          /\ pc'[p] = "clear" => resp'[p].Body = "closed"
          /\ pc'[p] = "reauth" => (resp'[p].Body = "closed" /\ accessToken' = "")
          /\ pc'[p] \in {"reattach", "getbody"}
                => (hookRet'[p] = NoErr /\ hookCalls'[p] >= 1)
          /\ pc'[p] /= pc[p]
                => /\ pc[p] = "close" => pc'[p] = "clear"
                   /\ pc[p] = "clear" => pc'[p] = "reauth"
                   /\ pc[p] = "reauth"
                         => /\ hookRet'[p] = NoErr => pc'[p] = "reattach"
                            /\ hookRet'[p] /= NoErr => pc'[p] = "return"
                   /\ pc[p] = "reattach" => pc'[p] = "getbody"
                   /\ pc[p] = "getbody" => pc'[p] \in {"send", "return"}
                   /\ (pc'[p] = "send" /\ sends[p] >= 1) => pc[p] = "getbody"
          /\ (accessToken' /= accessToken /\ accessToken' /= "")
                => \E q \in Callers : pc[q] = "reauth"]_vars

RetryPathOrderWitness ==
    /\ pc[1] = "send"
    /\ sends[1] = 1 /\ hookCalls[1] = 1 /\ hookRet[1] = NoErr
    /\ resp[1].Body = "closed"
    /\ accessToken = "t2"
    /\ AuthorizationOf(req[1]) = "Bearer t2"
    /\ stale = {"Bearer t1"}

\* C18: right after the re-attachment that follows a successful hook, the
\* request carries exactly what a fresh request would for the Credential
\* State as it is: X-Pm-Uid = uid or absent, Bearer accessToken or absent,
\* and one cookie with the current authToken or none.
ReattachEqualsFresh ==
    \A p \in Callers :
        pc[p] = "getbody"
            => LET h == req[p].Header
               IN  /\ "X-Pm-Uid" \in DOMAIN h <=> uid /= ""
                   /\ uid /= "" => h["X-Pm-Uid"] = uid
                   /\ "Authorization" \in DOMAIN h <=> (uid /= "" /\ accessToken /= "")
                   /\ "Authorization" \in DOMAIN h
                         => h["Authorization"] = "Bearer " \o accessToken
                   /\ req[p].Cookies =
                         IF uid /= "" /\ authToken /= ""
                         THEN << [Name |-> "AUTH-" \o uid, Value |-> QueryEscape(authToken)] >>
                         ELSE <<>>

\* C19: a step of the core leaves uid, authToken and keyRing as they are,
\* and changes accessToken only by emptying it after a 401 that passed the
\* three guards.
CoreFrame ==
    [][(\A q \in Callers : pc[q] /= "reauth")
          => /\ uid' = uid /\ authToken' = authToken /\ keyRing' = keyRing
             /\ accessToken' /= accessToken
                   => /\ accessToken' = ""
                      /\ \E p \in Callers :
                            /\ pc[p] = "clear"
                            /\ resp[p].StatusCode = StatusUnauthorized
                            /\ "Authorization" \in DOMAIN req[p].Header
                            /\ ReAuth = "func"
                            /\ (req[p].Body.present => req[p].GetBody /= "nil")]_vars

CoreFrameWitness ==
    /\ pc[1] = "reauth"
    /\ hookCalls[1] = 0
    /\ sentAuth[1] = "Bearer t1"
    /\ accessToken = ""
    /\ uid = "u1" /\ authToken = "a/2"

\* C15: with two callers on one client every 401 that passes the guards is
\* followed by that caller's own hook invocation: a caller's hook calls
\* equal the guarded 401s it has received, less the one it is still
\* handling.
HooksNotDeduplicated ==
    \A p \in Callers :
        guarded[p] < MaxHookCalls
            => hookCalls[p] =
                  guarded[p] - (IF pc[p] \in {"close", "clear", "reauth"} THEN 1 ELSE 0)

HooksNotDeduplicatedWitness ==
    /\ pc[1] = "reattach" /\ pc[2] = "reattach"
    /\ guarded[1] = 1 /\ guarded[2] = 1
    /\ hookCalls[1] = 1 /\ hookCalls[2] = 1
    /\ sends[1] = 1 /\ sends[2] = 1

\* C16: once an Authorization value has been rejected by a guarded 401 and
\* cleared, and the hook has not set that token again, no request built
\* afterwards carries it and no resend carries it.
NoStaleTokenSent ==
    [][\A p \in Callers :
          /\ (pc[p] = "idle" /\ pc'[p] = "built")
                => AuthorizationOf(req'[p]) \notin stale
          /\ (pc[p] = "send" /\ pc'[p] /= "send" /\ sends[p] >= 1)
                => AuthorizationOf(req[p]) \notin stale]_vars

====
